---- MODULE Spec2Model ----
(***************************************************************************)
(* Scan-and-remediate engine of src/s3-misconfig.py: lambda_handler,       *)
(* scan_buckets and remediate_risks, run against a small S3 account.       *)
(*                                                                         *)
(* The account (variable s3) holds, per bucket, the public-access-block    *)
(* configuration, the bucket ACL, the bucket policy, the default           *)
(* encryption and the objects with their ACLs.  A service call either      *)
(* answers from that state or fails with a ClientError; the failures are   *)
(* chosen nondeterministically, at most MaxFaults per invocation.          *)
(***************************************************************************)
EXTENDS Integers, Sequences, FiniteSets, TLC

(***************************************************************************)
(* Bounds of the model.                                                    *)
(***************************************************************************)
\* arbitrary service failures (AccessDenied and the like) per invocation
MaxFaults == 1
\* invocations of lambda_handler in the repeated-run specification
MaxInvocations == 4
\* invocations of the remediation Lambda's lambda_handler
MaxFixInvocations == 2

(***************************************************************************)
(* Program constants.                                                      *)
(***************************************************************************)
\* list_objects_v2(MaxKeys=100), scaled to the object lists of the model
MaxKeys == 2

\* the account's buckets in the order list_buckets returns them
BucketList == <<"b1", "b2">>

BucketNames == {BucketList[k] : k \in 1..Len(BucketList)}

(***************************************************************************)
(* Values of the service.                                                  *)
(***************************************************************************)
Flags == {"BlockPublicAcls", "IgnorePublicAcls", "BlockPublicPolicy", "RestrictPublicBuckets"}

\* Grantee URIs are abbreviated to the group name they end in.
AllUsersGrant == [Type |-> "Group", URI |-> "AllUsers"]
AuthUsersGrant == [Type |-> "Group", URI |-> "AuthenticatedUsers"]
OwnerGrant == [Type |-> "CanonicalUser", URI |-> ""]

\* `'AllUsers' in uri` over the URIs of the model
ContainsAllUsers(uri) == uri = "AllUsers"

\* `'s3:*' in action` over the action strings of the model
ContainsS3Star(action) == action \in {"s3:*", "s3:*Object"}

\* the ACL a bucket has after put_bucket_acl(ACL='private')
PrivateAcl == <<OwnerGrant>>

\* the configuration written by put_public_access_block
AllBlockedButAcls == [f \in Flags |-> f # "BlockPublicAcls"]
AllBlocked == [f \in Flags |-> TRUE]

NoPab == [present |-> FALSE, cfg |-> [f \in Flags |-> FALSE]]

NoPolicyDoc == [present |-> FALSE, Version |-> "", Statement |-> <<>>]

PolicyDoc(version, statements) == [present |-> TRUE, Version |-> version, Statement |-> statements]

\* Version "" stands for a policy document without a Version element
Stmt(principal, actions) == [Principal |-> principal, Action |-> actions]

(***************************************************************************)
(* Inputs: the bucket states the account starts from.                      *)
(***************************************************************************)
PabInputs ==
    { NoPab,
      [present |-> TRUE, cfg |-> AllBlocked],
      [present |-> TRUE, cfg |-> [AllBlocked EXCEPT !["BlockPublicAcls"] = FALSE]] }

AclInputs == { <<OwnerGrant>>, <<OwnerGrant, AllUsersGrant>>, <<OwnerGrant, AuthUsersGrant>> }

PolicyInputs ==
    { NoPolicyDoc,
      PolicyDoc("2012-10-17", <<Stmt("arn", <<"s3:GetObject">>)>>),
      PolicyDoc("2012-10-17", <<Stmt("arn", <<"s3:GetObject", "s3:*">>)>>),
      PolicyDoc("2012-10-17", <<Stmt("*", <<"s3:GetObject">>), Stmt("arn", <<"s3:*">>)>>),
      PolicyDoc("2012-10-17", <<Stmt("arn", <<"ec2:*">>)>>),
      PolicyDoc("2012-10-17",
                <<Stmt("arn", <<"ec2:*">>), Stmt("*", <<"s3:*">>), Stmt("arn", <<"s3:GetObject">>)>>),
      PolicyDoc("", <<Stmt("*", <<"s3:GetObject">>)>>) }

EncInputs == { "None", "aws:kms" }

\* each object is its ACL
PublicObject == <<OwnerGrant, AllUsersGrant>>
PrivateObject == <<OwnerGrant>>

ObjectInputs ==
    { <<>>, <<PrivateObject, PublicObject>>, <<PrivateObject, PrivateObject, PublicObject>> }

BucketState(pab, acl, policy, enc, objects) ==
    [pab |-> pab, acl |-> acl, policy |-> policy, enc |-> enc, objects |-> objects]

\* the objects of a bucket are looked at only by the PublicACL remediation
\* (lines 241-253), which does not look at the policy: buckets with objects
\* have a public ACL and one of two policies
BucketInputs ==
    { st \in { BucketState(p, a, q, e, o) :
                 p \in PabInputs, a \in AclInputs, q \in PolicyInputs, e \in EncInputs,
                 o \in ObjectInputs } :
        \/ st.objects = <<>>
        \/ /\ st.acl = <<OwnerGrant, AllUsersGrant>>
           /\ \/ ~st.policy.present
              \/ Len(st.policy.Statement) = 2 }

(***************************************************************************)
(* Service calls.  A call answers with a code ("ok" or the error code of   *)
(* the ClientError it raises) and a value.  `fail` is the choice of an     *)
(* arbitrary service failure for this call.                                *)
(***************************************************************************)
get_public_access_block(st, fail) ==
    IF fail THEN [code |-> "AccessDenied", value |-> NoPab.cfg]
    ELSE IF ~st.pab.present
         THEN [code |-> "NoSuchPublicAccessBlockConfiguration", value |-> NoPab.cfg]
         ELSE [code |-> "ok", value |-> st.pab.cfg]

get_bucket_acl(st, fail) ==
    IF fail THEN [code |-> "AccessDenied", value |-> <<>>]
    ELSE [code |-> "ok", value |-> st.acl]

get_bucket_policy(st, fail) ==
    IF fail THEN [code |-> "AccessDenied", value |-> NoPolicyDoc]
    ELSE IF ~st.policy.present
         THEN [code |-> "NoSuchBucketPolicy", value |-> NoPolicyDoc]
         ELSE [code |-> "ok", value |-> st.policy]

get_bucket_encryption(st, fail) ==
    IF fail THEN [code |-> "AccessDenied", value |-> "None"]
    ELSE IF st.enc = "None"
         THEN [code |-> "ServerSideEncryptionConfigurationNotFoundError", value |-> "None"]
         ELSE [code |-> "ok", value |-> st.enc]

\* list_buckets(): one page of the account's buckets, `limit` the number of
\* buckets the service puts on a page; more is True when buckets remain (the
\* answer then carries a ContinuationToken)
list_buckets(limit, fail) ==
    IF fail THEN [code |-> "AccessDenied", Buckets |-> <<>>, more |-> FALSE]
    ELSE [code |-> "ok",
          Buckets |-> IF Len(BucketList) > limit THEN SubSeq(BucketList, 1, limit) ELSE BucketList,
          more |-> Len(BucketList) > limit]

\* list_objects_v2(Bucket, MaxKeys): the first MaxKeys objects
list_objects_v2(st, fail) ==
    IF fail THEN [code |-> "AccessDenied", value |-> <<>>]
    ELSE [code |-> "ok",
          value |-> IF Len(st.objects) > MaxKeys THEN SubSeq(st.objects, 1, MaxKeys)
                    ELSE st.objects]

(***************************************************************************)
(* scan_buckets: the severity order and the four checks of one bucket.     *)
(***************************************************************************)
severity_rank_swapped(severity) ==
    CASE severity = "none" -> 0
      [] severity = "low" -> 1
      [] severity = "medium" -> 3
      [] severity = "high" -> 2
      [] OTHER -> 0
severity_rank(severity) ==
    CASE severity = "none" -> 0
      [] severity = "low" -> 1
      [] severity = "medium" -> 2
      [] severity = "high" -> 3
      [] OTHER -> 0

\* severity = level if severity_rank(level) > severity_rank(severity) else severity
Overwrite(level, severity) == level
Raise(level, severity) ==
    IF severity_rank(level) > severity_rank(severity) THEN level ELSE severity

Finding(type, count) == [type |-> type, details |-> count]

\* for setting, value in pab_config.items(): if not value
DisabledIfAll(pab_config) == IF \A f \in Flags : ~pab_config[f] THEN Flags ELSE {}
DisabledSettings(pab_config) == {f \in Flags : ~pab_config[f]}

\* grantee.get('Type') == 'Group' and 'AllUsers' in grantee.get('URI', '')
IsGroupGrant(grant) == grant.Type = "Group"
IsPublicGrant(grant) == grant.Type = "Group" /\ ContainsAllUsers(grant.URI)

PublicGrants(grants) == SelectSeq(grants, IsPublicGrant)

\* principal == '*' or any('s3:*' in action for action in actions)
IsStarPrincipal(statement) == statement.Principal = "*"
IsWildcardStatement(statement) ==
    \/ statement.Principal = "*"
    \/ \E k \in 1..Len(statement.Action) : ContainsS3Star(statement.Action[k])

WildcardStatements(statements) == SelectSeq(statements, IsWildcardStatement)

\* The accumulator of one bucket is [risks, severity].
EmptyAcc == [risks |-> <<>>, severity |-> "none"]

AddRiskInFront(acc, type, count, level) ==
    [risks |-> <<Finding(type, count)>> \o acc.risks,
     severity |-> Raise(level, acc.severity)]
AddRisk(acc, type, count, level) ==
    [risks |-> Append(acc.risks, Finding(type, count)),
     severity |-> Raise(level, acc.severity)]

\* Check 1: Public Access Block Configuration
CheckPab(acc, resp) ==
    IF resp.code = "ok" /\ DisabledSettings(resp.value) # {}
    THEN AddRisk(acc, "PublicAccessBlockDisabled", Cardinality(DisabledSettings(resp.value)), "high")
    ELSE acc

\* Check 2: Public ACLs
CheckAcl(acc, resp) ==
    IF resp.code = "ok" /\ PublicGrants(resp.value) # <<>>
    THEN AddRisk(acc, "PublicACL", Len(PublicGrants(resp.value)), "high")
    ELSE acc

\* Check 3: Wildcard in Bucket Policy
CheckPolicyAnyError(acc, resp) ==
    IF resp.code = "ok"
    THEN IF WildcardStatements(resp.value.Statement) # <<>>
         THEN AddRisk(acc, "WildcardPolicy", Len(WildcardStatements(resp.value.Statement)), "medium")
         ELSE acc
    ELSE AddRisk(acc, "NoPolicy", 0, "medium")
CheckPolicy(acc, resp) ==
    IF resp.code = "ok"
    THEN IF WildcardStatements(resp.value.Statement) # <<>>
         THEN AddRisk(acc, "WildcardPolicy", Len(WildcardStatements(resp.value.Statement)), "medium")
         ELSE acc
    ELSE IF resp.code = "NoSuchBucketPolicy"
         THEN AddRisk(acc, "NoPolicy", 0, "medium")
         ELSE acc

\* Check 4: Encryption Status
CheckEncryptionAnyError(acc, resp) ==
    IF resp.code # "ok" THEN AddRisk(acc, "NoEncryption", 0, "medium") ELSE acc
CheckEncryption(acc, resp) ==
    IF resp.code = "ServerSideEncryptionConfigurationNotFoundError"
    THEN AddRisk(acc, "NoEncryption", 0, "medium")
    ELSE acc

ScanOps == {"get_public_access_block", "get_bucket_acl", "get_bucket_policy", "get_bucket_encryption"}

\* The four answers of the service for one bucket; F is the set of failing calls.
ScanResponses(st, F) ==
    [get_public_access_block |-> get_public_access_block(st, "get_public_access_block" \in F),
     get_bucket_acl |-> get_bucket_acl(st, "get_bucket_acl" \in F),
     get_bucket_policy |-> get_bucket_policy(st, "get_bucket_policy" \in F),
     get_bucket_encryption |-> get_bucket_encryption(st, "get_bucket_encryption" \in F)]

\* The body of the loop for a bucket that is not excluded.
InspectPolicyLast(resp) ==
    CheckPolicy(
        CheckEncryption(
            CheckAcl(
                CheckPab(EmptyAcc, resp.get_public_access_block),
                resp.get_bucket_acl),
            resp.get_bucket_encryption),
        resp.get_bucket_policy)
InspectBucket(resp) ==
    CheckEncryption(
        CheckPolicy(
            CheckAcl(
                CheckPab(EmptyAcc, resp.get_public_access_block),
                resp.get_bucket_acl),
            resp.get_bucket_policy),
        resp.get_bucket_encryption)

Record(name, acc) ==
    [name |-> name, risks |-> acc.risks, severity |-> acc.severity, skipped |-> FALSE]

SkippedRecord(name) ==
    [name |-> name, risks |-> <<>>, skipped |-> TRUE, severity |-> "none"]

\* bucket_name in config.get('exclude_buckets', [])
NeverExcluded(bucket_name, cfg) == bucket_name \in {}
IsExcluded(bucket_name, cfg) == bucket_name \in cfg.exclude_buckets

(***************************************************************************)
(* lambda_handler: the event and the decision to remediate.                *)
(***************************************************************************)
\* dict.get(key, default); an event is a function on the keys it holds
GetOrFalse(d, key, default) == IF key \in DOMAIN d THEN d[key] ELSE FALSE
Get(d, key, default) == IF key \in DOMAIN d THEN d[key] ELSE default

\* config.get('exclude_buckets', []) of an event without config
DefaultConfig == [exclude_buckets |-> {}]

ConfigInputs == { [exclude_buckets |-> {}], [exclude_buckets |-> {"b2"}] }

\* the events with and without a dry_run key
EventInputs ==
    { ("config" :> c) @@ ("remediate" :> r) @@ ("dry_run" :> d) :
        c \in ConfigInputs, r \in BOOLEAN, d \in BOOLEAN }
    \cup { ("config" :> c) @@ ("remediate" :> r) : c \in ConfigInputs, r \in BOOLEAN }

\* the events of the repeated runs: remediation runs, and a scan alone
RepeatEvents ==
    { ("config" :> c) @@ ("remediate" :> TRUE) @@ ("dry_run" :> FALSE) : c \in ConfigInputs }
    \cup { "remediate" :> FALSE }

\* if remediate and not dry_run
RemediateOnFlagAlone(rem, dry) == rem
ShouldRemediate(rem, dry) == rem /\ ~dry

\* [r for r in risks if r['severity'] in ['high', 'medium'] and not r.get('skipped')]
IsEligible(r) == r.severity \in {"high", "medium"} /\ ~r.skipped

AllRecords(rs) == rs
Eligible(rs) == SelectSeq(rs, IsEligible)

IsRisky(r) == r.severity # "none"
IsHigh(r) == r.severity = "high"

\* sum(1 for b in bucket_risks if b.get('severity') == 'high')
HighRisk(rs) == Len(SelectSeq(rs, IsHigh))

Fix(bucket, action, status, reason) ==
    [bucket |-> bucket, action |-> action, status |-> status, reason |-> reason]

\* a service call: the function that issues it, the operation, the bucket, the answer
Call(by, op, bucket, code) == [by |-> by, op |-> op, bucket |-> bucket, code |-> code]

MutatingOps == {"put_bucket_acl", "put_public_access_block", "put_bucket_policy", "put_bucket_encryption"}

(***************************************************************************)
(* The remediation Lambda (src/wakimworks-s3-remediation).                 *)
(***************************************************************************)
RuleNames ==
    {"s3-bucket-public-read-prohibited", "s3-bucket-versioning-enabled",
     "s3-bucket-server-side-encryption-enabled", "s3-bucket-ssl-requests-only",
     "s3-bucket-logging-enabled"}

\* REMEDIATION_MAP: the rule name -> the module whose remediate is called
REMEDIATION_MAP ==
    [r \in RuleNames |->
        CASE r = "s3-bucket-public-read-prohibited" -> "public_read"
          [] r = "s3-bucket-versioning-enabled" -> "versioning"
          [] r = "s3-bucket-server-side-encryption-enabled" -> "encryption_rest"
          [] r = "s3-bucket-ssl-requests-only" -> "encryption_transit"
          [] r = "s3-bucket-logging-enabled" -> "logging"]

\* REMEDIATION_MAP.get(rule_name)
NoRemediation(rule_name) == "none"
RemediationFunc(rule_name) ==
    IF rule_name \in DOMAIN REMEDIATION_MAP THEN REMEDIATION_MAP[rule_name] ELSE "none"

\* log_bucket = f'{bucket_name}-logs'
LogBucket(bucket_name) ==
    CASE bucket_name = "b1" -> "b1-logs"
      [] bucket_name = "b2" -> "b2-logs"
      [] OTHER -> "-logs"

LogBucketNames == {LogBucket(b) : b \in BucketNames}

\* the account each bucket of the model lives in
AccountOf == [b \in BucketNames |-> IF b = "b1" THEN "111" ELSE "222"]

SnsMessage(rule, resource, account) ==
    [ConfigRuleName |-> rule, ResourceId |-> resource, ClientAccountId |-> account]

\* the messages: every mapped rule and an unmapped one for each bucket, and
\* a message without ClientAccountId
MessageInputs ==
    { SnsMessage(r, b, AccountOf[b]) : r \in RuleNames \cup {"s3-bucket-other-rule"}, b \in BucketNames }
    \cup { [ConfigRuleName |-> "s3-bucket-versioning-enabled", ResourceId |-> "b1"] }

\* the messages about the first bucket
FirstBucketMessages ==
    { m \in MessageInputs : m.ResourceId = "b1" /\ m.ConfigRuleName # "s3-bucket-other-rule" }

\* the policy written by encryption_transit.remediate
SslStatement ==
    [Principal |-> "*", Action |-> <<"s3:*">>, Sid |-> "DenyInsecureTransport", Effect |-> "Deny"]

SslPolicy == PolicyDoc("2012-10-17", <<SslStatement>>)

\* a call of the remediation Lambda: the operation, the bucket (or the account
\* of assume_role), the session it was issued with (0: the Lambda's own
\* credentials) and the answer
FixCall(op, target, sess, code) == [op |-> op, target |-> target, session |-> sess, code |-> code]

StorageOps ==
    {"put_public_access_block", "put_bucket_versioning", "put_bucket_encryption",
     "put_bucket_policy", "head_bucket", "create_bucket", "put_bucket_logging"}

LogOps == {"put_item", "put_object"}

\* logger.py lines 6-7: the table and the bucket of the audit log (defaults)
TABLE_NAME == "test-table"

LOGS_BUCKET == "test-bucket"

(***************************************************************************)
(* State.                                                                  *)
(***************************************************************************)
VARIABLES
    s3,           \* the account: bucket name -> bucket state
    event,        \* the event of the current invocation
    config,       \* event_data.get('config', {})
    remediate,    \* event_data.get('remediate', False)
    dry_run,      \* event_data.get('dry_run', True)
    pc,           \* position of the handler
    bucket_list,  \* scan_buckets: the buckets taken from the listing
    i,            \* scan_buckets: index of the bucket under inspection
    risks,        \* scan_buckets: the records built so far
    eligible,     \* remediate_risks: the filtered records
    ri,           \* remediate_risks: index into eligible
    rj,           \* remediate_risks: index into the risks of eligible[ri]
    fixes,        \* remediate_risks: the outcomes so far
    results,      \* lambda_handler: the result structure
    calls,        \* service calls of the current invocation, in order
    faults,       \* arbitrary service failures of the current invocation
    invocations,  \* invocations started
    before,       \* the account as it was when the invocation started
    passes,       \* bucket -> completed remediation passes that covered it
    settled,      \* bucket -> 0, or 1 + passes completed since a clean pass
    changed,      \* bucket -> which kind of earlier pass a later change followed
    faulted,      \* an arbitrary service failure has occurred in some invocation
    aux,          \* the account: versioning, logging and the log buckets
    sns_message,  \* remediation Lambda: the message of the current invocation
    fpc,          \* remediation Lambda: position of the handler
    session,      \* remediation function: the session of get_client_session, 0 if none
    assumed,      \* sessions handed out by assume_role so far
    spent,        \* sessions of the invocations that have ended
    fcalls,       \* remediation Lambda: the calls of the current invocation, in order
    ffaults,      \* remediation Lambda: arbitrary failures of the current invocation
    finvocations, \* remediation Lambda: invocations started
    fix_result,   \* lambda_handler: result of the remediation function, "none" before
    statusCode    \* lambda_handler: statusCode returned, 0 while it runs

envVars == <<s3>>
eventVars == <<event, config, remediate, dry_run>>
scanVars == <<bucket_list, i, risks>>
remVars == <<eligible, ri, rj, fixes>>
histVars == <<invocations, before, passes, settled, changed>>
\* the variables of the scan Lambda other than the account
scanLambdaVars == <<eventVars, pc, scanVars, remVars, results, calls, faults, faulted, histVars>>
\* the variables of the remediation Lambda
fixVars == <<aux, sns_message, fpc, session, assumed, spent, fcalls, ffaults, finvocations,
             fix_result, statusCode>>
vars == <<s3, event, config, remediate, dry_run, pc, bucket_list, i, risks, eligible, ri, rj, fixes,
          results, calls, faults, invocations, before, passes, settled, changed, faulted,
          aux, sns_message, fpc, session, assumed, spent, fcalls, ffaults, finvocations,
          fix_result, statusCode>>

(***************************************************************************)
(* Initial states.                                                         *)
(***************************************************************************)
\* the state of the second bucket: every check finds something
SecondInputs ==
    { BucketState([present |-> TRUE, cfg |-> [f \in Flags |-> FALSE]], <<OwnerGrant, AllUsersGrant>>,
                  PolicyDoc("2012-10-17", <<Stmt("*", <<"s3:*">>)>>), "None", <<PrivateObject>>) }

\* the log buckets that exist at the start
LogBucketInputs == { {}, {"b1-logs"} }

\* no versioning, no logging; `logs` the log buckets that exist; `blocked`
\* the log buckets given the four public-access-block flags; `clients` says
\* that logger.py built its DynamoDB and S3 clients when it was imported
Aux(logs) ==
    [versioning |-> [b \in BucketNames |-> FALSE],
     logging |-> [b \in BucketNames |-> ""],
     logs |-> logs,
     blocked |-> {},
     clients |-> TRUE]

InitFix ==
    /\ sns_message = SnsMessage("", "", "")
    /\ fpc = "idle"
    /\ session = 0
    /\ assumed = 0
    /\ spent = {}
    /\ fcalls = <<>>
    /\ ffaults = 0
    /\ finvocations = 0
    /\ fix_result = "none"
    /\ statusCode = 0

InitHandler ==
    /\ event = ("remediate" :> FALSE)
    /\ config = DefaultConfig
    /\ remediate = FALSE
    /\ dry_run = TRUE
    /\ pc = "idle"
    /\ bucket_list = <<>>
    /\ i = 1
    /\ risks = <<>>
    /\ eligible = <<>>
    /\ ri = 1
    /\ rj = 1
    /\ fixes = <<>>
    /\ results = [summary |-> [total_buckets |-> 0, high_risk |-> 0], buckets |-> <<>>]
    /\ calls = <<>>
    /\ faults = 0
    /\ invocations = 0
    /\ before = s3
    /\ passes = [b \in BucketNames |-> 0]
    /\ settled = [b \in BucketNames |-> 0]
    /\ changed = [b \in BucketNames |-> {}]
    /\ faulted = FALSE
    /\ InitFix

Account(first, second) == [b \in BucketNames |-> IF b = BucketList[1] THEN first ELSE second]

Init ==
    /\ \E first \in BucketInputs, second \in SecondInputs : s3 = Account(first, second)
    /\ aux = Aux({})
    /\ InitHandler

\* the buckets the repeated runs start from: public ACL, no encryption
RepeatInputs ==
    { st \in BucketInputs :
        /\ st.pab.cfg # AllBlocked
        /\ st.acl = <<OwnerGrant, AllUsersGrant>>
        /\ st.enc = "None"
        /\ st.objects \in { <<>>, <<PrivateObject, PublicObject>> }
        /\ st.policy \in { NoPolicyDoc,
                           PolicyDoc("2012-10-17", <<Stmt("*", <<"s3:GetObject">>), Stmt("arn", <<"s3:*">>)>>) } }

\* the second bucket of the repeated runs: nothing to find, nothing to fix
QuietBucket ==
    BucketState([present |-> TRUE, cfg |-> AllBlocked], PrivateAcl, NoPolicyDoc, "aws:kms", <<>>)

InitRepeat ==
    /\ \E first \in RepeatInputs : s3 = Account(first, QuietBucket)
    /\ aux = Aux({})
    /\ InitHandler

(***************************************************************************)
(* Actions.                                                                *)
(***************************************************************************)
FailChoices == IF faults < MaxFaults THEN BOOLEAN ELSE {FALSE}

Code(fail) == IF fail THEN "AccessDenied" ELSE "ok"

\* n more arbitrary failures in this invocation
Fault(n) == faults' = faults + n /\ faulted' = (faulted \/ n > 0)

\* lines 13-30: the handler reads the event and initialises the result
Invoke(limit, events) ==
    /\ pc \in {"idle", "done", "raised"}
    /\ fpc \in {"idle", "done"}
    /\ invocations < limit
    /\ \E ev \in events :
        /\ event' = ev
        /\ config' = Get(ev, "config", DefaultConfig)
        /\ remediate' = Get(ev, "remediate", FALSE)
        /\ dry_run' = Get(ev, "dry_run", TRUE)
    /\ results' = [summary |-> [total_buckets |-> 0, high_risk |-> 0], buckets |-> <<>>]
    /\ pc' = "list"
    /\ bucket_list' = <<>>
    /\ i' = 1
    /\ risks' = <<>>
    /\ eligible' = <<>>
    /\ ri' = 1
    /\ rj' = 1
    /\ fixes' = <<>>
    /\ calls' = <<>>
    /\ faults' = 0
    /\ invocations' = invocations + 1
    /\ before' = s3
    /\ UNCHANGED <<fixVars, s3, passes, settled, changed, faulted>>

\* the page sizes of the service: the whole account on one page, or less
OnePage == {Len(BucketList)}

PageLimits == 1..Len(BucketList)

\* lines 78-87: list_buckets, one call whose 'Buckets' are taken; a ClientError
\* ends the scan with []
ListBuckets(limits) ==
    /\ pc = "list"
    /\ \E fail \in FailChoices, limit \in limits :
        LET response == list_buckets(limit, fail)
        IN /\ calls' = Append(calls, Call("scan_buckets", "list_buckets", "", response.code))
           /\ Fault(IF fail THEN 1 ELSE 0)
           /\ bucket_list' = response.Buckets
           /\ pc' = IF response.Buckets = <<>> THEN "summary" ELSE "scan"
    /\ i' = 1
    /\ risks' = <<>>
    /\ UNCHANGED <<fixVars, envVars, eventVars, remVars, results, histVars>>

\* the end of the loop body: the next bucket, or the end of the scan
AfterFirstBucket == "summary"
AfterBucket == IF i = Len(bucket_list) THEN "summary" ELSE "scan"

\* lines 94-98: an excluded bucket
ScanExcluded ==
    /\ pc = "scan"
    /\ IsExcluded(bucket_list[i], config)
    /\ risks' = Append(risks, SkippedRecord(bucket_list[i]))
    /\ i' = i + 1
    /\ pc' = AfterBucket
    /\ UNCHANGED <<fixVars, bucket_list, envVars, eventVars, remVars, results, calls, faults, faulted, histVars>>

ScanCalls(name, resp) ==
    << Call("scan_buckets", "get_public_access_block", name, resp.get_public_access_block.code),
       Call("scan_buckets", "get_bucket_acl", name, resp.get_bucket_acl.code),
       Call("scan_buckets", "get_bucket_policy", name, resp.get_bucket_policy.code),
       Call("scan_buckets", "get_bucket_encryption", name, resp.get_bucket_encryption.code) >>

\* lines 100-209: the four checks of one bucket and its record
ScanBucket ==
    /\ pc = "scan"
    /\ ~IsExcluded(bucket_list[i], config)
    /\ \E F \in SUBSET ScanOps :
        /\ faults + Cardinality(F) <= MaxFaults
        /\ LET name == bucket_list[i]
               resp == ScanResponses(s3[name], F)
           IN /\ risks' = Append(risks, Record(name, InspectBucket(resp)))
              /\ calls' = calls \o ScanCalls(name, resp)
        /\ Fault(Cardinality(F))
    /\ i' = i + 1
    /\ pc' = AfterBucket
    /\ UNCHANGED <<fixVars, bucket_list, envVars, eventVars, remVars, results, histVars>>

\* lines 35-46: the summary, and the decision to remediate
Summarize ==
    /\ pc = "summary"
    /\ results' = [summary |-> [total_buckets |-> Len(risks), high_risk |-> HighRisk(risks)],
                   buckets |-> risks]
    /\ IF ShouldRemediate(remediate, dry_run)
       THEN /\ pc' = "remediate"
            /\ eligible' = Eligible(risks)
       ELSE /\ pc' = "return"
            /\ eligible' = <<>>
    /\ ri' = 1
    /\ rj' = 1
    /\ fixes' = <<>>
    /\ UNCHANGED <<fixVars, envVars, eventVars, scanVars, calls, faults, faulted, histVars>>

(***************************************************************************)
(* remediate_risks: one action per branch of the loop over the risks of    *)
(* the eligible buckets (lines 221-330).                                   *)
(***************************************************************************)
InRemediation == pc = "remediate" /\ ri <= Len(eligible)

CurBucket == eligible[ri]

CurRisk == CurBucket.risks[rj]

\* for risk in bucket['risks']: the loop body is at a risk of an eligible bucket
AtRisk == InRemediation /\ rj <= Len(CurBucket.risks)

\* the next risk of this bucket, or the first one of the next bucket
Advance ==
    IF rj < Len(CurBucket.risks)
    THEN ri' = ri /\ rj' = rj + 1
    ELSE ri' = ri + 1 /\ rj' = 1

\* a change of a bucket made after an earlier pass had covered it
NoteChange(name, st) ==
    IF st = s3[name] THEN changed
    ELSE [changed EXCEPT ![name] =
            @ \cup (IF passes[name] >= 1 THEN {"pass"} ELSE {})
              \cup (IF settled[name] >= 1 THEN {"clean"} ELSE {})]

\* lines 241-253: the index of the first object whose ACL is read and shows a
\* public grant, 0 if there is none; A holds the objects whose ACL read fails
FirstPublicOrUnread(objects, A) ==
    LET hits == {k \in 1..Len(objects) : k \in A \/ PublicGrants(objects[k]) # <<>>}
    IN IF hits = {} THEN 0 ELSE CHOOSE k \in hits : \A h \in hits : k <= h
FirstObjectPublic(objects, A) ==
    IF Len(objects) >= 1 /\ 1 \notin A /\ PublicGrants(objects[1]) # <<>> THEN 1 ELSE 0
FirstPublic(objects, A) ==
    LET hits == {k \in 1..Len(objects) : k \notin A /\ PublicGrants(objects[k]) # <<>>}
    IN IF hits = {} THEN 0 ELSE CHOOSE k \in hits : \A h \in hits : k <= h

\* the objects whose ACL is read: the loop breaks at the first public one
LastRead(objects, A) ==
    IF FirstPublic(objects, A) = 0 THEN Len(objects) ELSE FirstPublic(objects, A)

ObjectAclCalls(name, objects, A) ==
    [k \in 1..LastRead(objects, A) |-> Call("remediate_risks", "get_object_acl", name, Code(k \in A))]

SkipPublicReason == "Objects with public ACLs detected - manual review required"

\* lines 233-265. The outcome without 'reason' key has reason "".
RemediatePublicACL ==
    /\ AtRisk
    /\ CurRisk.type = "PublicACL"
    /\ LET name == CurBucket.name IN
       \E listFail \in FailChoices, A \in SUBSET (1..MaxKeys), putFail \in BOOLEAN :
        LET listing == list_objects_v2(s3[name], listFail)
            objects == listing.value
            public == FirstPublic(objects, A) # 0
            put == listing.code = "ok" /\ ~public
            used == (IF listFail THEN 1 ELSE 0) + Cardinality(A) + (IF putFail THEN 1 ELSE 0)
            st == IF put /\ ~putFail THEN [s3[name] EXCEPT !.acl = PrivateAcl] ELSE s3[name]
        IN /\ A \subseteq 1..LastRead(objects, A)
           /\ putFail => put
           /\ faults + used <= MaxFaults
           /\ Fault(used)
           /\ calls' = calls \o <<Call("remediate_risks", "list_objects_v2", name, listing.code)>>
                             \o ObjectAclCalls(name, objects, A)
                             \o (IF put THEN <<Call("remediate_risks", "put_bucket_acl", name, Code(putFail))>> ELSE <<>>)
           /\ fixes' = Append(fixes,
                 IF listing.code # "ok" THEN Fix(name, "removed_public_acl", "failed", listing.code)
                 ELSE IF public THEN Fix(name, "removed_public_acl", "skipped", SkipPublicReason)
                 ELSE IF putFail THEN Fix(name, "removed_public_acl", "failed", Code(putFail))
                 ELSE Fix(name, "removed_public_acl", "success", ""))
           /\ s3' = [s3 EXCEPT ![name] = st]
           /\ changed' = NoteChange(name, st)
    /\ Advance
    /\ UNCHANGED <<fixVars, eventVars, pc, scanVars, eligible, results, invocations, before, passes, settled>>

\* lines 280 and 283: the outcome of put_public_access_block
PabOutcomeSuccess(name, fail) == Fix(name, "enabled_public_access_block", "success", "")
PabOutcome(name, fail) ==
    IF fail THEN Fix(name, "enabled_public_access_block", "failed", Code(fail))
    ELSE Fix(name, "enabled_public_access_block", "success", "")

\* lines 268-284
RemediatePublicAccessBlock ==
    /\ AtRisk
    /\ CurRisk.type = "PublicAccessBlockDisabled"
    /\ LET name == CurBucket.name IN
       \E fail \in FailChoices :
        LET st == IF fail THEN s3[name]
                  ELSE [s3[name] EXCEPT !.pab = [present |-> TRUE, cfg |-> AllBlocked]]
        IN /\ Fault(IF fail THEN 1 ELSE 0)
           /\ calls' = Append(calls, Call("remediate_risks", "put_public_access_block", name, Code(fail)))
           /\ fixes' = Append(fixes, PabOutcome(name, fail))
           /\ s3' = [s3 EXCEPT ![name] = st]
           /\ changed' = NoteChange(name, st)
    /\ Advance
    /\ UNCHANGED <<fixVars, eventVars, pc, scanVars, eligible, results, invocations, before, passes, settled>>

\* stmt.get('Principal') != '*'
KeepNamedOrDeny(stmt) == stmt.Principal # "*" \/ stmt = SslStatement
KeepStatement(stmt) == stmt.Principal # "*"

\* lines 287-308. policy_json['Version'] of a document without Version raises
\* KeyError, which no handler catches: the invocation ends with the exception.
RemediateWildcardPolicy ==
    /\ AtRisk
    /\ CurRisk.type = "WildcardPolicy"
    /\ LET name == CurBucket.name IN
       \E getFail \in FailChoices, putFail \in BOOLEAN :
        LET got == get_bucket_policy(s3[name], getFail)
            statements == got.value.Statement
            updated_statements == SelectSeq(statements, KeepStatement)
            shorter == got.code = "ok" /\ Len(updated_statements) < Len(statements)
            keyError == shorter /\ got.value.Version = ""
            put == shorter /\ ~keyError
            used == (IF getFail THEN 1 ELSE 0) + (IF putFail THEN 1 ELSE 0)
            st == IF put /\ ~putFail
                  THEN [s3[name] EXCEPT !.policy = PolicyDoc(got.value.Version, updated_statements)]
                  ELSE s3[name]
        IN /\ putFail => put
           /\ faults + used <= MaxFaults
           /\ Fault(used)
           /\ calls' = calls \o <<Call("remediate_risks", "get_bucket_policy", name, got.code)>>
                             \o (IF put THEN <<Call("remediate_risks", "put_bucket_policy", name, Code(putFail))>> ELSE <<>>)
           /\ fixes' = IF keyError THEN fixes
                       ELSE Append(fixes,
                         IF got.code # "ok" THEN Fix(name, "removed_wildcard_policy", "failed", got.code)
                         ELSE IF ~shorter
                              THEN Fix(name, "removed_wildcard_policy", "skipped", "no changes or complex policy")
                         ELSE IF putFail THEN Fix(name, "removed_wildcard_policy", "failed", Code(putFail))
                         ELSE Fix(name, "removed_wildcard_policy", "success", ""))
           /\ s3' = [s3 EXCEPT ![name] = st]
           /\ changed' = NoteChange(name, st)
           /\ IF keyError
              THEN pc' = "raised" /\ UNCHANGED <<fixVars, ri, rj>>
              ELSE pc' = pc /\ Advance
    /\ UNCHANGED <<fixVars, eventVars, scanVars, eligible, results, invocations, before, passes, settled>>

\* lines 324 and 327: the outcome of put_bucket_encryption
EncryptionOutcome(name, fail) ==
    IF fail THEN Fix(name, "enabled_encryption", "failed", Code(fail))
    ELSE Fix(name, "enabled_encryption", "success", "")

\* lines 311-328
RemediateNoEncryption ==
    /\ AtRisk
    /\ CurRisk.type = "NoEncryption"
    /\ LET name == CurBucket.name IN
       \E fail \in FailChoices :
        LET st == IF fail THEN s3[name] ELSE [s3[name] EXCEPT !.enc = "AES256"]
        IN /\ Fault(IF fail THEN 1 ELSE 0)
           /\ calls' = Append(calls, Call("remediate_risks", "put_bucket_encryption", name, Code(fail)))
           /\ fixes' = Append(fixes, EncryptionOutcome(name, fail))
           /\ s3' = [s3 EXCEPT ![name] = st]
           /\ changed' = NoteChange(name, st)
    /\ Advance
    /\ UNCHANGED <<fixVars, eventVars, pc, scanVars, eligible, results, invocations, before, passes, settled>>

RemediableTypes == {"PublicACL", "PublicAccessBlockDisabled", "WildcardPolicy", "NoEncryption"}

\* lines 233-311: a risk type that no branch of the if/elif chain matches
RemediateNothing ==
    /\ AtRisk
    /\ CurRisk.type \notin RemediableTypes
    /\ Advance
    /\ UNCHANGED <<fixVars, envVars, eventVars, pc, scanVars, eligible, fixes, results, calls, faults, faulted, histVars>>

\* lines 333 and 44-46: remediate_risks returns, results['fixes'] is set
RemediateReturn ==
    /\ pc = "remediate"
    /\ ri > Len(eligible)
    /\ results' = results @@ ("fixes" :> fixes)
    /\ pc' = "return"
    /\ UNCHANGED <<fixVars, envVars, eventVars, scanVars, remVars, calls, faults, faulted, histVars>>

\* a non-skipped record of the bucket is among the scan records
Covered(name) == \E k \in 1..Len(risks) : risks[k].name = name /\ ~risks[k].skipped

Answered(name, op, codes) ==
    \E k \in 1..Len(calls) : calls[k].bucket = name /\ calls[k].op = op /\ calls[k].code \in codes

\* a clean pass on a bucket: the four checks of the scan were answered, the
\* bucket was eligible and every outcome that names it is success
CleanPass(name) ==
    /\ "fixes" \in DOMAIN results
    /\ \E k \in 1..Len(eligible) : eligible[k].name = name
    /\ Answered(name, "get_public_access_block", {"ok"})
    /\ Answered(name, "get_bucket_acl", {"ok"})
    /\ Answered(name, "get_bucket_policy", {"ok", "NoSuchBucketPolicy"})
    /\ Answered(name, "get_bucket_encryption", {"ok", "ServerSideEncryptionConfigurationNotFoundError"})
    /\ \A k \in 1..Len(fixes) : fixes[k].bucket = name => fixes[k].status = "success"

\* lines 52-55: the handler returns the result
Return ==
    /\ pc = "return"
    /\ pc' = "done"
    /\ passes' = [b \in BucketNames |->
                    IF "fixes" \in DOMAIN results /\ Covered(b)
                    THEN passes[b] + 1 ELSE passes[b]]
    /\ settled' = [b \in BucketNames |->
                    IF settled[b] >= 1
                    THEN (IF "fixes" \in DOMAIN results /\ Covered(b)
                          THEN settled[b] + 1 ELSE settled[b])
                    ELSE (IF CleanPass(b) THEN 1 ELSE 0)]
    /\ UNCHANGED <<fixVars, envVars, eventVars, scanVars, remVars, results, calls, faults, faulted,
                   invocations, before, changed>>

Step ==
    \/ ScanExcluded
    \/ ScanBucket
    \/ Summarize
    \/ RemediatePublicACL
    \/ RemediatePublicAccessBlock
    \/ RemediateWildcardPolicy
    \/ RemediateNoEncryption
    \/ RemediateNothing
    \/ RemediateReturn
    \/ Return

\* one invocation on an account whose buckets fit on one listing page
Next == Invoke(1, EventInputs) \/ ListBuckets(OnePage) \/ Step

Spec == Init /\ [][Next]_vars

\* the handler invoked again and again on the same account
NextRepeat == Invoke(MaxInvocations, RepeatEvents) \/ ListBuckets(OnePage) \/ Step

SpecRepeat == InitRepeat /\ [][NextRepeat]_vars

\* one invocation on an account whose listing may take more than one page
NextPaged == Invoke(1, RepeatEvents) \/ ListBuckets(PageLimits) \/ Step

SpecPaged == InitRepeat /\ [][NextPaged]_vars

(***************************************************************************)
(* The remediation Lambda: lambda_function.lambda_handler, the remediate   *)
(* function of each module, sts_helper.get_client_session and              *)
(* logger.log_remediation.  Any exception inside the handler is caught at  *)
(* line 48 and answered with statusCode 500.                               *)
(***************************************************************************)
FixFailChoices == IF ffaults < MaxFaults THEN BOOLEAN ELSE {FALSE}

FixFault(fail) == ffaults' = ffaults + (IF fail THEN 1 ELSE 0)

\* sns_message['ConfigRuleName'], ['ResourceId'], ['ClientAccountId'] are there
HasKeys(m) == {"ConfigRuleName", "ResourceId", "ClientAccountId"} \subseteq DOMAIN m

rule_name == sns_message.ConfigRuleName

resource_id == sns_message.ResourceId

account_id == sns_message.ClientAccountId

\* lines 48-52: except Exception
Swallowed == fpc' = "done" /\ statusCode' = 200
Caught == fpc' = "done" /\ statusCode' = 500

\* lines 14-32: the handler reads the message and looks up the remediation
FixInvoke(limit, messages) ==
    /\ fpc \in {"idle", "done"}
    /\ pc \in {"idle", "done", "raised"}
    /\ finvocations < limit
    /\ \E m \in messages :
        /\ sns_message' = m
        /\ IF ~HasKeys(m) THEN Caught
           ELSE IF RemediationFunc(m.ConfigRuleName) = "none"
                THEN fpc' = "done" /\ statusCode' = 400
                ELSE fpc' = "assume" /\ statusCode' = 0
    /\ session' = 0
    /\ spent' = spent \cup (IF session # 0 THEN {session} ELSE {})
    /\ fcalls' = <<>>
    /\ ffaults' = 0
    /\ finvocations' = finvocations + 1
    /\ fix_result' = "none"
    /\ UNCHANGED <<s3, aux, assumed, scanLambdaVars>>

\* boto3.Session(...) built from the credentials of the n+1-th assume_role
FirstSession(n) == 1
SessionFrom(n) == n + 1

\* sts_helper.get_client_session, called first by every remediate
AssumeRole ==
    /\ fpc = "assume"
    /\ \E fail \in FixFailChoices :
        /\ FixFault(fail)
        /\ IF fail
           THEN /\ fcalls' = Append(fcalls, FixCall("assume_role", account_id, 0, Code(fail)))
                /\ Caught
                /\ UNCHANGED <<session, assumed>>
           ELSE /\ fcalls' = Append(fcalls, FixCall("assume_role", account_id, SessionFrom(assumed), "ok"))
                /\ session' = SessionFrom(assumed)
                /\ assumed' = assumed + 1
                /\ fpc' = RemediationFunc(rule_name)
                /\ statusCode' = statusCode
    /\ UNCHANGED <<s3, aux, sns_message, spent, finvocations, fix_result, scanLambdaVars>>

\* one call of the remediation function on `target`, with its session; an
\* answer other than ok raises; `account` is the account after the call,
\* and the function returns success and hands over to `next`
StorageCall(op, target, code, next, bucket, account) ==
    /\ fcalls' = Append(fcalls, FixCall(op, target, session, code))
    /\ IF code = "ok"
       THEN /\ s3' = bucket
            /\ aux' = account
            /\ fpc' = next
            /\ statusCode' = statusCode
            /\ fix_result' = IF next = "log" THEN "success" ELSE fix_result
       ELSE /\ Caught
            /\ UNCHANGED <<s3, aux, fix_result>>
    /\ UNCHANGED <<sns_message, session, assumed, spent, finvocations, scanLambdaVars>>

\* public_read.remediate, lines 10-21
PublicRead ==
    /\ fpc = "public_read"
    /\ \E fail \in FixFailChoices :
        /\ FixFault(fail)
        /\ StorageCall("put_public_access_block", resource_id, Code(fail), "log",
                       [s3 EXCEPT ![resource_id].pab = [present |-> TRUE, cfg |-> AllBlocked]], aux)

\* versioning.remediate, lines 10-15
Versioning ==
    /\ fpc = "versioning"
    /\ \E fail \in FixFailChoices :
        /\ FixFault(fail)
        /\ StorageCall("put_bucket_versioning", resource_id, Code(fail), "log",
                       s3, [aux EXCEPT !.versioning[resource_id] = TRUE])

\* encryption_rest.remediate, lines 10-22
EncryptionRest ==
    /\ fpc = "encryption_rest"
    /\ \E fail \in FixFailChoices :
        /\ FixFault(fail)
        /\ StorageCall("put_bucket_encryption", resource_id, Code(fail), "log",
                       [s3 EXCEPT ![resource_id].enc = "AES256"], aux)

\* encryption_transit.remediate, lines 11-30: the policy replaces the old one
EncryptionTransit ==
    /\ fpc = "encryption_transit"
    /\ \E fail \in FixFailChoices :
        /\ FixFault(fail)
        /\ StorageCall("put_bucket_policy", resource_id, Code(fail), "log",
                       [s3 EXCEPT ![resource_id].policy = SslPolicy], aux)

log_bucket == LogBucket(resource_id)

\* what head_bucket answers: the bucket is there and nothing went wrong
HeadAnswer(fail) ==
    IF fail THEN "AccessDenied"
    ELSE IF log_bucket \in aux.logs THEN "ok" ELSE "404"

\* logging.remediate, lines 14-15: the bare except goes on to create the bucket
AfterHeadNotFound(code) ==
    IF code \in {"ok", "AccessDenied"} THEN "logging_put" ELSE "logging_create"
AfterHead(code) == IF code = "ok" THEN "logging_put" ELSE "logging_create"

\* logging.remediate, lines 12-13: try head_bucket
HeadBucket ==
    /\ fpc = "logging"
    /\ \E fail \in FixFailChoices :
        /\ FixFault(fail)
        /\ fcalls' = Append(fcalls, FixCall("head_bucket", log_bucket, session, HeadAnswer(fail)))
        /\ fpc' = AfterHead(HeadAnswer(fail))
    /\ UNCHANGED <<s3, aux, sns_message, session, assumed, spent, finvocations, fix_result,
                   statusCode, scanLambdaVars>>

\* what create_bucket answers for a bucket the account already owns: ok in
\* us-east-1, BucketAlreadyOwnedByYou elsewhere
CreateAnswers(fail) ==
    IF fail THEN {"AccessDenied"}
    ELSE IF log_bucket \in aux.logs THEN {"ok", "BucketAlreadyOwnedByYou"} ELSE {"ok"}

\* logging.remediate, line 16
CreateBucket ==
    /\ fpc = "logging_create"
    /\ \E fail \in FixFailChoices :
        /\ FixFault(fail)
        /\ \E code \in CreateAnswers(fail) :
            StorageCall("create_bucket", log_bucket, code, "logging_block",
                        s3, [aux EXCEPT !.logs = @ \cup {log_bucket}])

\* logging.remediate, lines 17-25: the four flags on the new log bucket
BlockLogBucket ==
    /\ fpc = "logging_block"
    /\ \E fail \in FixFailChoices :
        /\ FixFault(fail)
        /\ StorageCall("put_public_access_block", log_bucket, Code(fail), "logging_put",
                       s3, [aux EXCEPT !.blocked = @ \cup {log_bucket}])

\* logging.remediate, lines 27-37
PutBucketLogging ==
    /\ fpc = "logging_put"
    /\ \E fail \in FixFailChoices :
        /\ FixFault(fail)
        /\ StorageCall("put_bucket_logging", resource_id, Code(fail), "log",
                       s3, [aux EXCEPT !.logging[resource_id] = log_bucket])

\* logger.log_remediation, lines 17-19: without clients nothing is written
LogLocally ==
    /\ fpc = "log"
    /\ ~aux.clients
    /\ fpc' = "done"
    /\ statusCode' = 200
    /\ UNCHANGED <<s3, aux, sns_message, session, assumed, spent, fcalls, ffaults, finvocations,
                   fix_result, scanLambdaVars>>

\* logger.log_remediation with the Lambda's own clients: put_item, then
\* put_object; back in the handler, line 46 answers 200
LogRemediation ==
    /\ fpc = "log"
    /\ aux.clients
    /\ \E failItem \in FixFailChoices :
        /\ \E failObject \in (IF failItem THEN {FALSE} ELSE FixFailChoices) :
            /\ FixFault(failItem \/ failObject)
            /\ fcalls' = fcalls \o
                   (IF failItem
                    THEN <<FixCall("put_item", TABLE_NAME, 0, Code(TRUE))>>
                    ELSE <<FixCall("put_item", TABLE_NAME, 0, "ok"),
                           FixCall("put_object", LOGS_BUCKET, 0, Code(failObject))>>)
            /\ IF failItem \/ failObject
               THEN Caught
               ELSE fpc' = "done" /\ statusCode' = 200
    /\ UNCHANGED <<s3, aux, sns_message, session, assumed, spent, finvocations, fix_result,
                   scanLambdaVars>>

FixStep ==
    \/ AssumeRole
    \/ PublicRead
    \/ Versioning
    \/ EncryptionRest
    \/ EncryptionTransit
    \/ HeadBucket
    \/ CreateBucket
    \/ BlockLogBucket
    \/ PutBucketLogging
    \/ LogLocally
    \/ LogRemediation

\* the remediation Lambda alone, on an account with or without a log bucket
InitFixOnly ==
    /\ \E first \in RepeatInputs : s3 = Account(first, QuietBucket)
    /\ \E logs \in LogBucketInputs, clients \in BOOLEAN :
          aux = [Aux(logs) EXCEPT !.clients = clients]
    /\ InitHandler

NextFix == FixInvoke(MaxFixInvocations, MessageInputs) \/ FixStep

SpecFix == InitFixOnly /\ [][NextFix]_vars

\* one invocation of the remediation Lambda on the first bucket and one of
\* the scan Lambda on the same account, in either order
NextUndo ==
    \/ FixInvoke(1, FirstBucketMessages)
    \/ FixStep
    \/ Invoke(1, RepeatEvents)
    \/ ListBuckets(OnePage)
    \/ Step

SpecUndo == InitFixOnly /\ [][NextUndo]_vars

(***************************************************************************)
(* Vocabulary of the properties.                                           *)
(***************************************************************************)
HasType(rs, type) == \E k \in 1..Len(rs) : rs[k].type = type

HasAllUsers(grants) ==
    \E k \in 1..Len(grants) : grants[k].Type = "Group" /\ grants[k].URI = "AllUsers"

\* the handler is past the scan of the current invocation
ScanEnded == pc \in {"summary", "remediate", "return", "done", "raised"}

ListingAnswered ==
    \E k \in 1..Len(calls) : calls[k].op = "list_buckets" /\ calls[k].code = "ok"

CallsOn(name, op) == {k \in 1..Len(calls) : calls[k].bucket = name /\ calls[k].op = op}

\* the outcome of a finding type
ActionFor(type) ==
    CASE type = "PublicACL" -> "removed_public_acl"
      [] type = "PublicAccessBlockDisabled" -> "enabled_public_access_block"
      [] type = "WildcardPolicy" -> "removed_wildcard_policy"
      [] type = "NoEncryption" -> "enabled_encryption"
      [] OTHER -> "none"

\* the outcome a call of remediate_risks belongs to
ActionOf(op) ==
    CASE op \in {"list_objects_v2", "get_object_acl", "put_bucket_acl"} -> "removed_public_acl"
      [] op = "put_public_access_block" -> "enabled_public_access_block"
      [] op \in {"get_bucket_policy", "put_bucket_policy"} -> "removed_wildcard_policy"
      [] op = "put_bucket_encryption" -> "enabled_encryption"
      [] OTHER -> "none"

FixesOf(name, action) ==
    {p \in 1..Len(fixes) : fixes[p].bucket = name /\ fixes[p].action = action}

(***************************************************************************)
(* C1. For every eligible bucket whose findings hold both PublicACL and    *)
(* PublicAccessBlockDisabled, the removed_public_acl outcome comes before  *)
(* the enabled_public_access_block outcome in the fixes sequence, and the  *)
(* put_bucket_acl attempt before the put_public_access_block call.         *)
(* The scan appends PublicAccessBlockDisabled first (check 1) and the      *)
(* remediation follows the order of the findings, so this fails.           *)
(***************************************************************************)
C1_AclOutcomeBeforeBlock ==
    \A k \in 1..Len(eligible) :
        LET name == eligible[k].name IN
        (HasType(eligible[k].risks, "PublicACL")
            /\ HasType(eligible[k].risks, "PublicAccessBlockDisabled"))
        => /\ \A p \in FixesOf(name, "enabled_public_access_block") :
                \E q \in FixesOf(name, "removed_public_acl") : q < p
           /\ \A c \in CallsOn(name, "put_public_access_block") :
                \A d \in CallsOn(name, "put_bucket_acl") : d < c

(***************************************************************************)
(* C2. An invocation with remediate true and dry_run true returns results  *)
(* without a 'fixes' key, issues no mutating call and leaves every bucket  *)
(* as it was.                                                              *)
(***************************************************************************)
C2_DryRunChangesNothing ==
    (pc # "idle" /\ remediate /\ dry_run)
    => /\ "fixes" \notin DOMAIN results
       /\ \A k \in 1..Len(calls) : calls[k].op \notin MutatingOps
       /\ s3 = before

\* a dry run that returned although the scan found a bucket to remediate
C2_DryRunWitness ==
    /\ pc = "done"
    /\ remediate
    /\ "dry_run" \in DOMAIN event
    /\ event["dry_run"]
    /\ \E k \in 1..Len(risks) : risks[k].severity = "high" /\ HasType(risks[k].risks, "NoEncryption")

(***************************************************************************)
(* C3. A bucket named in config.exclude_buckets gets the record            *)
(* {risks: [], severity: none, skipped: true}; no call is made on it, no   *)
(* outcome names it and no remediation changes it.                         *)
(***************************************************************************)
C3_ExcludedUntouched ==
    pc # "idle" =>
    \A b \in config.exclude_buckets \cap BucketNames :
        /\ \A k \in 1..Len(risks) :
              risks[k].name = b
              => risks[k].risks = <<>> /\ risks[k].severity = "none" /\ risks[k].skipped
        /\ (ScanEnded /\ ListingAnswered) => \E k \in 1..Len(risks) : risks[k].name = b
        /\ \A k \in 1..Len(calls) : calls[k].bucket # b
        /\ \A p \in 1..Len(fixes) : fixes[p].bucket # b
        /\ s3[b] = before[b]

\* a remediation ran and fixed another bucket while the excluded one, public
\* and unencrypted, was left alone
C3_ExcludedWitness ==
    /\ pc = "done"
    /\ "b2" \in config.exclude_buckets
    /\ "fixes" \in DOMAIN results
    /\ \E p \in 1..Len(fixes) : fixes[p].status = "success"
    /\ s3["b2"].enc = "None"
    /\ HasAllUsers(s3["b2"].acl)

(***************************************************************************)
(* C4. PublicACL remediation: if any of the objects returned by the        *)
(* bounded listing carries a grant to AllUsers, the outcome is skipped and *)
(* put_bucket_acl is not called.  As stated this fails: an object whose    *)
(* ACL read fails is passed over (lines 251-253).                          *)
(***************************************************************************)
ListedOk(name) == \E k \in CallsOn(name, "list_objects_v2") : calls[k].code = "ok"

\* the objects the listing of the bucket returns
Sampled(name) == {k \in 1..Len(s3[name].objects) : k <= MaxKeys}

SkippedWithoutPut(name, p) ==
    /\ fixes[p].status = "skipped"
    /\ CallsOn(name, "put_bucket_acl") = {}

ReadOk(name, k) ==
    \E j \in CallsOn(name, "get_object_acl") :
        /\ calls[j].code = "ok"
        /\ Cardinality({h \in CallsOn(name, "get_object_acl") : h <= j}) = k

FailedCalls(ops) ==
    {k \in 1..Len(calls) :
        calls[k].by = "remediate_risks" /\ calls[k].op \in ops /\ calls[k].code # "ok"}

HasFailedOutcome(k) ==
    \E p \in FixesOf(calls[k].bucket, ActionOf(calls[k].op)) :
        fixes[p].status = "failed" /\ fixes[p].reason # ""

\* the risks remediate_risks has gone through: those before position (ri, rj)
Processed ==
    {x \in (1..Len(eligible)) \X (1..4) :
        /\ x[2] <= Len(eligible[x[1]].risks)
        /\ x[1] < ri \/ (x[1] = ri /\ x[2] < rj)}

\* every remediable risk gone through has exactly one outcome, and there is
\* no other outcome
OneOutcomeEach ==
    /\ \A x \in Processed :
          LET type == eligible[x[1]].risks[x[2]].type IN
          type \in RemediableTypes
          => Cardinality(FixesOf(eligible[x[1]].name, ActionFor(type))) = 1
    /\ Len(fixes) =
          Cardinality({x \in Processed : eligible[x[1]].risks[x[2]].type \in RemediableTypes})

\* an exception that ends remediate_risks does not come from a failed call
NoRaiseFromFailure ==
    pc = "raised" => (calls # <<>> /\ calls[Len(calls)].code = "ok")

\* remediate_risks returned only after it went through every eligible bucket
ReturnedAfterAll ==
    "fixes" \in DOMAIN results => (ri > Len(eligible) /\ results["fixes"] = fixes)

RemediationOps ==
    {"list_objects_v2", "get_object_acl", "put_bucket_acl", "put_public_access_block",
     "get_bucket_policy", "put_bucket_policy", "put_bucket_encryption"}

LevelRank == [none |-> 0, low |-> 1, medium |-> 2, high |-> 3]

SeverityOf(type) ==
    IF type \in {"PublicAccessBlockDisabled", "PublicACL"} THEN "high" ELSE "medium"

MaxSeverity(rs) ==
    IF rs = <<>> THEN "none"
    ELSE LET levels == {SeverityOf(rs[k].type) : k \in 1..Len(rs)}
         IN CHOOSE l \in levels : \A m \in levels : LevelRank[m] <= LevelRank[l]

C6_SeverityIsMax ==
    \A k \in 1..Len(risks) :
        ~risks[k].skipped => risks[k].severity = MaxSeverity(risks[k].risks)

\* a record with a high finding followed by a medium one
C6_MixedWitness ==
    \E k \in 1..Len(risks) :
        /\ Len(risks[k].risks) >= 2
        /\ risks[k].risks[1].type = "PublicAccessBlockDisabled"
        /\ HasType(risks[k].risks, "NoEncryption")
        /\ risks[k].severity = "high"

(***************************************************************************)
(* C7. A non-excluded bucket with at least one public-access-block flag    *)
(* false has PublicAccessBlockDisabled among its findings and severity     *)
(* high, whatever the other checks give.  As stated this fails when the    *)
(* get_public_access_block call itself fails (lines 123-124).              *)
(***************************************************************************)
SomeFlagFalse(name) ==
    before[name].pab.present /\ \E f \in Flags : ~before[name].pab.cfg[f]

Flagged(k) ==
    HasType(risks[k].risks, "PublicAccessBlockDisabled") /\ risks[k].severity = "high"

C7_AnyFlagFalseIsFlagged ==
    \A k \in 1..Len(risks) :
        (~risks[k].skipped /\ SomeFlagFalse(risks[k].name)) => Flagged(k)

PabAnswer(name) ==
    {calls[k].code : k \in CallsOn(name, "get_public_access_block")}

(* C7 as amended: a non-excluded bucket with at least one flag false whose *)
(* get_public_access_block call is answered has the finding and severity   *)
(* high, whatever the other checks give.                                   *)
C7_ReadFlagFalseIsFlagged ==
    \A k \in 1..Len(risks) :
        (~risks[k].skipped /\ SomeFlagFalse(risks[k].name) /\ PabAnswer(risks[k].name) = {"ok"})
        => Flagged(k)

\* the flag is found although another check of the bucket failed
C7_FlaggedWitness ==
    \E k \in 1..Len(risks) :
        /\ SomeFlagFalse(risks[k].name)
        /\ Flagged(k)
        /\ \E j \in CallsOn(risks[k].name, "get_bucket_acl") : calls[j].code # "ok"

(***************************************************************************)
(* C8. A non-excluded bucket with a public-access-block flag unset (here:  *)
(* a bucket without public-access-block configuration) gets the            *)
(* PublicAccessBlockDisabled finding, like one with the flag false.  The   *)
(* lookup of such a bucket raises NoSuchPublicAccessBlockConfiguration,    *)
(* which lines 123-124 log and drop, so this fails.                        *)
(***************************************************************************)
C8_NoConfigurationIsFlagged ==
    \A k \in 1..Len(risks) :
        (/\ ~risks[k].skipped
         /\ ~before[risks[k].name].pab.present
         /\ PabAnswer(risks[k].name) = {"NoSuchPublicAccessBlockConfiguration"})
        => HasType(risks[k].risks, "PublicAccessBlockDisabled")

(***************************************************************************)
(* C9. A non-excluded bucket with the four flags true, no grant to         *)
(* AllUsers, a policy present without wildcard statement and default       *)
(* encryption configured has the record findings [] and severity none.     *)
(***************************************************************************)
WildcardActions == {"s3:*", "s3:*Object", "ec2:*"}

NoWildcard(policy) ==
    \A k \in 1..Len(policy.Statement) :
        /\ policy.Statement[k].Principal # "*"
        /\ \A a \in 1..Len(policy.Statement[k].Action) :
              policy.Statement[k].Action[a] \notin WildcardActions

WellConfigured(st) ==
    /\ st.pab.present /\ \A f \in Flags : st.pab.cfg[f]
    /\ ~HasAllUsers(st.acl)
    /\ st.policy.present /\ NoWildcard(st.policy)
    /\ st.enc # "None"

C9_CleanBucketHasNoFindings ==
    \A k \in 1..Len(risks) :
        (~risks[k].skipped /\ WellConfigured(before[risks[k].name]))
        => risks[k].risks = <<>> /\ risks[k].severity = "none"

\* a well configured bucket with a grant to another group was inspected, all
\* four lookups answered
C9_CleanWitness ==
    \E k \in 1..Len(risks) :
        /\ ~risks[k].skipped
        /\ WellConfigured(before[risks[k].name])
        /\ Len(before[risks[k].name].acl) = 2
        /\ \A j \in 1..Len(calls) : calls[j].code = "ok"
        /\ risks[k].risks = <<>>

(***************************************************************************)
(* C10. Idempotence, under SpecRepeat: once a remediation pass has         *)
(* completed on a bucket, two more passes leave its configuration as it    *)
(* was and a scan run afterwards reports no PublicAccessBlockDisabled,     *)
(* PublicACL or NoEncryption finding for it.  As stated this fails even    *)
(* when no call ever fails: a pass completes as well when it skipped the   *)
(* public ACL because of a public object.                                  *)
(***************************************************************************)
\* the handler is inside an invocation, whose scan records are in risks
Scanning == pc \in {"scan", "summary", "remediate", "return", "raised"}

FixableTypes == {"PublicAccessBlockDisabled", "PublicACL", "NoEncryption"}

NoFixableFinding(name) ==
    \A k \in 1..Len(risks) :
        risks[k].name = name => \A t \in FixableTypes : ~HasType(risks[k].risks, t)

C10_RemediationIsIdempotent ==
    \A b \in BucketNames :
        (passes[b] >= 3 /\ ~faulted)
        => /\ "pass" \notin changed[b]
           /\ Scanning => NoFixableFinding(b)

(* C10 as amended: once a pass has completed on a bucket with the four     *)
(* lookups of its scan answered and every outcome of the bucket success,   *)
(* every later pass leaves the configuration of the bucket as it was and   *)
(* every later scan reports none of the three findings for it.             *)
C10_CleanPassIsIdempotent ==
    \A b \in BucketNames :
        settled[b] >= 1
        => /\ "clean" \notin changed[b]
           /\ Scanning => NoFixableFinding(b)

\* b1, public and unencrypted at first, was remediated by a clean pass, two
\* more passes covered it, and a later scan has inspected it
C10_IdempotentWitness ==
    /\ settled["b1"] = 3
    /\ pc = "summary"
    /\ \E k \in 1..Len(risks) : risks[k].name = "b1" /\ ~risks[k].skipped
    /\ \A j \in 1..Len(calls) : calls[j].code \in {"ok", "NoSuchBucketPolicy"}
    /\ s3["b1"].acl = PrivateAcl
    /\ s3["b1"].enc = "AES256"

(***************************************************************************)
(* C11. Under SpecPaged: when the listing is answered, every bucket of the *)
(* account has a record in the scan result, also when the account's        *)
(* buckets are returned over more than one listing page.  scan_buckets     *)
(* calls list_buckets once and takes the 'Buckets' of that answer only     *)
(* (lines 81-82), so the buckets past the first page have no record.       *)
(***************************************************************************)
HasRecord(name) == \E k \in 1..Len(risks) : risks[k].name = name

C11_EveryPageIsScanned ==
    (ScanEnded /\ ListingAnswered) => \A b \in BucketNames : HasRecord(b)

(***************************************************************************)
(* C12. When the bucket listing fails, the invocation does not raise and   *)
(* returns a result whose bucket list is empty and which carries an error, *)
(* so that it differs from the result of a scan of an account without      *)
(* buckets.  scan_buckets returns [] (line 85) and the handler builds the  *)
(* same result as for an empty account, so this fails.                     *)
(***************************************************************************)
ListingFailed ==
    \E k \in 1..Len(calls) : calls[k].op = "list_buckets" /\ calls[k].code # "ok"

\* the result of the same request on an account that has no bucket
ResultOnEmptyAccount ==
    LET scanned == [summary |-> [total_buckets |-> 0, high_risk |-> 0], buckets |-> <<>>]
    IN IF remediate /\ ~dry_run THEN scanned @@ ("fixes" :> <<>>) ELSE scanned

C12_FatalScanIsDistinguishable ==
    ListingFailed
    => /\ pc # "raised"
       /\ pc = "done" => /\ results.buckets = <<>>
                         /\ results # ResultOnEmptyAccount

(***************************************************************************)
(* C13. The four checks of one bucket are independent: a check whose       *)
(* service call fails contributes no finding, the other checks contribute  *)
(* exactly the findings they contribute when every call is answered, and   *)
(* the scan goes on to the next bucket.                                    *)
(***************************************************************************)
\* the check a finding comes from
CheckOf(type) ==
    CASE type = "PublicAccessBlockDisabled" -> "get_public_access_block"
      [] type = "PublicACL" -> "get_bucket_acl"
      [] type \in {"WildcardPolicy", "NoPolicy"} -> "get_bucket_policy"
      [] type = "NoEncryption" -> "get_bucket_encryption"
      [] OTHER -> "none"

\* the checks of the bucket whose call failed in the scan
FailedChecks(name) ==
    {calls[k].op :
        k \in {j \in 1..Len(calls) :
                 /\ calls[j].bucket = name
                 /\ calls[j].by = "scan_buckets"
                 /\ calls[j].code = "AccessDenied"
                 /\ calls[j].op \in ScanOps}}

\* the findings of the bucket when every call is answered
Undisturbed(name) == InspectBucket(ScanResponses(before[name], {})).risks

ExpectedFindings(name) ==
    LET failed == FailedChecks(name)
        Stays(f) == CheckOf(f.type) \notin failed
    IN SelectSeq(Undisturbed(name), Stays)

C13_ChecksAreIndependent ==
    /\ \A k \in 1..Len(risks) :
          ~risks[k].skipped => risks[k].risks = ExpectedFindings(risks[k].name)
    /\ (ScanEnded /\ ListingAnswered) => Len(risks) = Len(bucket_list)

\* the ACL check of b1 failed: no PublicACL finding although the ACL is
\* public, the block and encryption findings are there, and b2 was scanned
C13_FailedCheckWitness ==
    /\ ScanEnded
    /\ "get_bucket_acl" \in FailedChecks("b1")
    /\ HasAllUsers(before["b1"].acl)
    /\ \E k \in 1..Len(risks) :
          /\ risks[k].name = "b1"
          /\ HasType(risks[k].risks, "PublicAccessBlockDisabled")
          /\ HasType(risks[k].risks, "NoEncryption")
          /\ ~HasType(risks[k].risks, "PublicACL")
    /\ \E k \in 1..Len(risks) : risks[k].name = "b2" /\ risks[k].risks # <<>>

(***************************************************************************)
(* C14. The policy lookup of a bucket yields at most one finding: NoPolicy *)
(* exactly when the lookup answers NoSuchBucketPolicy, WildcardPolicy      *)
(* exactly when a policy is returned and has a wildcard statement, nothing *)
(* otherwise.  NoEncryption is found exactly when the encryption lookup    *)
(* answers ServerSideEncryptionConfigurationNotFoundError.                 *)
(***************************************************************************)
\* the answers the scan got from the operation on the bucket
ScanAnswer(name, op) ==
    {calls[k].code : k \in {j \in CallsOn(name, op) : calls[j].by = "scan_buckets"}}

PolicyFindings(rs) == {k \in 1..Len(rs) : rs[k].type \in {"WildcardPolicy", "NoPolicy"}}

\* a statement with principal '*' or an action with 's3:*' in it
HasWildcardStatement(policy) ==
    \E k \in 1..Len(policy.Statement) :
        \/ policy.Statement[k].Principal = "*"
        \/ \E a \in 1..Len(policy.Statement[k].Action) :
              policy.Statement[k].Action[a] \in {"s3:*", "s3:*Object"}

C14_LookupOutcomes ==
    \A k \in 1..Len(risks) :
        LET name == risks[k].name
            found == risks[k].risks
        IN ~risks[k].skipped
           => /\ Cardinality(PolicyFindings(found)) <= 1
              /\ HasType(found, "NoPolicy")
                    <=> ScanAnswer(name, "get_bucket_policy") = {"NoSuchBucketPolicy"}
              /\ HasType(found, "WildcardPolicy")
                    <=> /\ ScanAnswer(name, "get_bucket_policy") = {"ok"}
                        /\ HasWildcardStatement(before[name].policy)
              /\ HasType(found, "NoEncryption")
                    <=> ScanAnswer(name, "get_bucket_encryption")
                            = {"ServerSideEncryptionConfigurationNotFoundError"}

\* the encryption lookup of an unencrypted bucket without policy failed: no
\* NoEncryption finding, and NoPolicy is the one finding of its policy lookup
C14_OtherErrorWitness ==
    \E k \in 1..Len(risks) :
        /\ ~risks[k].skipped
        /\ before[risks[k].name].enc = "None"
        /\ ScanAnswer(risks[k].name, "get_bucket_encryption") = {"AccessDenied"}
        /\ ~HasType(risks[k].risks, "NoEncryption")
        /\ HasType(risks[k].risks, "NoPolicy")

(***************************************************************************)
(* C15. When the listing is answered, the scan returns exactly one record  *)
(* per listed bucket, excluded or not, in the order of the listing, and    *)
(* summary.total_buckets is the number of listed buckets.                  *)
(***************************************************************************)
Summarized == pc \in {"remediate", "return", "done", "raised"}

C15_OneRecordPerListedBucket ==
    ListingAnswered
    => /\ Len(risks) <= Len(bucket_list)
       /\ \A k \in 1..Len(risks) : risks[k].name = bucket_list[k]
       /\ ScanEnded => Len(risks) = Len(bucket_list)
       /\ Summarized => /\ results.buckets = risks
                         /\ results.summary.total_buckets = Len(bucket_list)

\* two buckets listed, the second one excluded: two records in that order
C15_ExcludedCountedWitness ==
    /\ pc = "done"
    /\ bucket_list = <<"b1", "b2">>
    /\ Len(results.buckets) = 2
    /\ results.buckets[1].name = "b1" /\ ~results.buckets[1].skipped
    /\ results.buckets[2].name = "b2" /\ results.buckets[2].skipped
    /\ results.summary.total_buckets = 2

(***************************************************************************)
(* C16. remediate_risks processes only records with severity high or       *)
(* medium that are not skipped: every outcome and every call it issues     *)
(* names the bucket of such a record, and a record with severity none or   *)
(* low, or skipped, causes no call.                                        *)
(***************************************************************************)
Processable(r) == r.severity \in {"high", "medium"} /\ r.skipped = FALSE

ProcessableNames == {risks[k].name : k \in {j \in 1..Len(risks) : Processable(risks[j])}}

RemediationCalls == {k \in 1..Len(calls) : calls[k].by = "remediate_risks"}

C16_OnlyEligibleProcessed ==
    /\ \A k \in 1..Len(eligible) : Processable(eligible[k])
    /\ \A p \in 1..Len(fixes) : fixes[p].bucket \in ProcessableNames
    /\ \A k \in RemediationCalls : calls[k].bucket \in ProcessableNames
    /\ \A k \in 1..Len(risks) :
          ~Processable(risks[k])
          => \A j \in RemediationCalls : calls[j].bucket # risks[k].name

\* remediation ran to its end on an account with a clean bucket (severity
\* none) and a bucket that has findings: only the second is named
C16_CleanBucketPassedWitness ==
    /\ pc = "done"
    /\ "fixes" \in DOMAIN results
    /\ Len(risks) = 2
    /\ risks[1].severity = "none" /\ ~risks[1].skipped
    /\ fixes # <<>>
    /\ \E k \in RemediationCalls : calls[k].op \in MutatingOps /\ calls[k].bucket = "b2"

(***************************************************************************)
(* C17. WildcardPolicy remediation fetches the policy again and removes    *)
(* the statements whose Principal is '*': if one is removed, the policy    *)
(* written back holds the remaining statements in their order and the      *)
(* outcome is success; if none is removed, no policy is written and the    *)
(* outcome is skipped with reason 'no changes or complex policy'.  Stated  *)
(* for invocations in which every call is answered.  For a policy without  *)
(* Version element, policy_json['Version'] (line 299) raises KeyError,     *)
(* which nothing catches: no policy is written, there is no outcome and    *)
(* the invocation ends with the exception.                                 *)
(***************************************************************************)
Refetched(name) ==
    \E k \in CallsOn(name, "get_bucket_policy") : calls[k].by = "remediate_risks"

NoCallFailed == \A k \in 1..Len(calls) : calls[k].code # "AccessDenied"

NamedPrincipal(stmt) == stmt.Principal # "*"

HasOutcome(name, action, status, reason) ==
    \E p \in FixesOf(name, action) : fixes[p].status = status /\ fixes[p].reason = reason

C17_StripsStarPrincipals ==
    \A b \in BucketNames :
        (Refetched(b) /\ NoCallFailed)
        => LET old == before[b].policy.Statement
               remaining == SelectSeq(old, NamedPrincipal)
           IN IF Len(remaining) < Len(old)
              THEN /\ CallsOn(b, "put_bucket_policy") # {}
                   /\ s3[b].policy.present
                   /\ s3[b].policy.Statement = remaining
                   /\ HasOutcome(b, "removed_wildcard_policy", "success", "")
              ELSE /\ CallsOn(b, "put_bucket_policy") = {}
                   /\ s3[b].policy = before[b].policy
                   /\ HasOutcome(b, "removed_wildcard_policy", "skipped",
                                 "no changes or complex policy")

(***************************************************************************)
(* C18. A policy that is returned yields a WildcardPolicy finding if and   *)
(* only if some statement has Principal '*' or some action of some         *)
(* statement contains a wildcard service action 'service:*', whatever the  *)
(* service.  As stated this fails: line 162 tests for 's3:*' only, and a   *)
(* policy whose one wildcard is 'ec2:*' is not flagged.                    *)
(***************************************************************************)
\* the statements with principal '*' or an action among `wildcards`
Flaggable(policy, wildcards) ==
    {k \in 1..Len(policy.Statement) :
        \/ policy.Statement[k].Principal = "*"
        \/ \E a \in 1..Len(policy.Statement[k].Action) :
              policy.Statement[k].Action[a] \in wildcards}

PolicyReturned(k) ==
    ~risks[k].skipped /\ ScanAnswer(risks[k].name, "get_bucket_policy") = {"ok"}

C18_AnyServiceWildcardIsFlagged ==
    \A k \in 1..Len(risks) :
        PolicyReturned(k)
        => (HasType(risks[k].risks, "WildcardPolicy")
              <=> Flaggable(before[risks[k].name].policy, WildcardActions) # {})

(* C18 as amended: the finding is there if and only if some statement has  *)
(* Principal '*' or some action contains 's3:*'; the finding counts these  *)
(* statements.                                                             *)
C18_S3WildcardIsFlagged ==
    \A k \in 1..Len(risks) :
        LET hits == Flaggable(before[risks[k].name].policy, {"s3:*", "s3:*Object"})
        IN PolicyReturned(k)
           => /\ HasType(risks[k].risks, "WildcardPolicy") <=> hits # {}
              /\ \A h \in 1..Len(risks[k].risks) :
                    risks[k].risks[h].type = "WildcardPolicy"
                    => risks[k].risks[h].details = Cardinality(hits)

\* a policy flagged for the action 's3:*' of a named principal alone
C18_ActionWildcardWitness ==
    \E k \in 1..Len(risks) :
        /\ PolicyReturned(k)
        /\ HasType(risks[k].risks, "WildcardPolicy")
        /\ \A h \in 1..Len(before[risks[k].name].policy.Statement) :
              before[risks[k].name].policy.Statement[h].Principal # "*"

(***************************************************************************)
(* C19. The returned result has a 'fixes' key if and only if the request   *)
(* has remediate true and dry_run explicitly false.  A request without     *)
(* dry_run is a dry run: with remediate true it causes no remediation call *)
(* and gets no 'fixes' key.  When remediation ran the key is there, also   *)
(* with an empty list.                                                     *)
(***************************************************************************)
Requested(key, value) == key \in DOMAIN event /\ event[key] = value

RemediationRequested == Requested("remediate", TRUE) /\ Requested("dry_run", FALSE)

C19_FixesKeyIffRemediationRan ==
    /\ pc = "done" => ("fixes" \in DOMAIN results <=> RemediationRequested)
    /\ (pc # "idle" /\ ~RemediationRequested)
         => /\ "fixes" \notin DOMAIN results
            /\ RemediationCalls = {}
            /\ s3 = before

\* remediate true and no dry_run key: the handler returned without 'fixes'
\* although the scan found a bucket of severity high
C19_OmittedDryRunWitness ==
    /\ pc = "done"
    /\ Requested("remediate", TRUE)
    /\ "dry_run" \notin DOMAIN event
    /\ "fixes" \notin DOMAIN results
    /\ results.summary.high_risk >= 1

(***************************************************************************)
(* C20. In the fixes sequence the outcomes of one bucket are contiguous,   *)
(* the buckets come in the order of the scan records, and within a bucket  *)
(* the removed_wildcard_policy outcome comes after the removed_public_acl  *)
(* and enabled_public_access_block outcomes, the enabled_encryption        *)
(* outcome after all the others.                                           *)
(***************************************************************************)
RecordIndex(name) == CHOOSE k \in 1..Len(risks) : risks[k].name = name

AccessActions == {"removed_public_acl", "enabled_public_access_block"}

C20_OutcomeOrder ==
    \A p \in 1..Len(fixes) : \A q \in 1..Len(fixes) :
        /\ (p < q /\ fixes[p].bucket = fixes[q].bucket)
              => \A r \in p..q : fixes[r].bucket = fixes[p].bucket
        /\ (p < q /\ fixes[p].bucket # fixes[q].bucket)
              => /\ HasRecord(fixes[p].bucket) /\ HasRecord(fixes[q].bucket)
                 /\ RecordIndex(fixes[p].bucket) < RecordIndex(fixes[q].bucket)
        /\ (fixes[p].bucket = fixes[q].bucket /\ p # q)
              => /\ (fixes[p].action = "removed_wildcard_policy"
                        /\ fixes[q].action \in AccessActions) => q < p
                 /\ fixes[p].action = "enabled_encryption" => q < p

\* both buckets were remediated; the second one has its four outcomes, the
\* policy outcome third and the encryption outcome last
C20_FourOutcomesWitness ==
    /\ pc = "done"
    /\ Len(fixes) >= 6
    /\ fixes[1].bucket = "b1"
    /\ Cardinality({p \in 1..Len(fixes) : fixes[p].bucket = "b2"}) = 4
    /\ fixes[Len(fixes) - 1].action = "removed_wildcard_policy"
    /\ fixes[Len(fixes)].action = "enabled_encryption"

(***************************************************************************)
(* C21. The findings of a scanned bucket are in the order of the checks:   *)
(* PublicAccessBlockDisabled, PublicACL, then WildcardPolicy or NoPolicy,  *)
(* then NoEncryption, at most one of each kind.  A bucket with the four    *)
(* flags true, a grant to AllUsers, no policy and no encryption gives      *)
(* [PublicACL, NoPolicy, NoEncryption] and severity high.                  *)
(***************************************************************************)
KindRank(type) ==
    CASE type = "PublicAccessBlockDisabled" -> 1
      [] type = "PublicACL" -> 2
      [] type \in {"WildcardPolicy", "NoPolicy"} -> 3
      [] type = "NoEncryption" -> 4
      [] OTHER -> 0

TypesOf(rs) == [k \in 1..Len(rs) |-> rs[k].type]

\* every call of the scan on the bucket was answered by the service
ScanAnswered(name) ==
    \A op \in ScanOps : "AccessDenied" \notin ScanAnswer(name, op)

PublicAclOnly(st) ==
    /\ st.pab.present /\ \A f \in Flags : st.pab.cfg[f]
    /\ HasAllUsers(st.acl)
    /\ ~st.policy.present
    /\ st.enc = "None"

C21_FindingsInCheckOrder ==
    \A k \in 1..Len(risks) :
        ~risks[k].skipped
        => /\ \A h \in 1..Len(risks[k].risks) : KindRank(risks[k].risks[h].type) >= 1
           /\ \A g \in 1..Len(risks[k].risks) : \A h \in 1..Len(risks[k].risks) :
                 g < h => KindRank(risks[k].risks[g].type) < KindRank(risks[k].risks[h].type)
           /\ (PublicAclOnly(before[risks[k].name]) /\ ScanAnswered(risks[k].name))
                 => /\ TypesOf(risks[k].risks) = <<"PublicACL", "NoPolicy", "NoEncryption">>
                    /\ risks[k].severity = "high"

\* the bucket of the scenario was scanned
C21_ScenarioWitness ==
    \E k \in 1..Len(risks) :
        /\ ~risks[k].skipped
        /\ PublicAclOnly(before[risks[k].name])
        /\ ScanAnswered(risks[k].name)
        /\ Len(risks[k].risks) = 3

(***************************************************************************)
(* C24. summary.high_risk is the number of scan records of severity high,  *)
(* as the scan computed them before any remediation.  remediate_risks      *)
(* leaves the records and the summary as they are: the returned buckets    *)
(* and high_risk describe the account as it was before the remediation.    *)
(***************************************************************************)
HighRecords == {k \in 1..Len(risks) : risks[k].severity = "high"}

\* the record is the one the scan derived from the bucket as it was when the
\* invocation started
DescribesBefore(r) ==
    IF r.skipped THEN r = SkippedRecord(r.name)
    ELSE /\ r.risks = ExpectedFindings(r.name)
         /\ r.severity = MaxSeverity(r.risks)

RemediationEnded == pc \in {"return", "done", "raised"} /\ remediate /\ ~dry_run

OutcomesFor(r, type) ==
    IF type \in RemediableTypes /\ HasType(r.risks, type)
    THEN Cardinality(FixesOf(r.name, ActionFor(type))) = 1
    ELSE FixesOf(r.name, ActionFor(type)) = {}

OnlyNoPolicy(r) == TypesOf(r.risks) = <<"NoPolicy">>

C25_OneOutcomePerFinding ==
    RemediationEnded
    => \A k \in 1..Len(risks) :
          Processable(risks[k])
          => /\ \A type \in RemediableTypes : OutcomesFor(risks[k], type)
             /\ OnlyNoPolicy(risks[k])
                   => /\ \A p \in 1..Len(fixes) : fixes[p].bucket # risks[k].name
                      /\ \A j \in RemediationCalls : calls[j].bucket # risks[k].name

(***************************************************************************)
(* C26. The running severity of the bucket under inspection never goes     *)
(* down from one check to the next and is one of none, medium, high; no    *)
(* record has severity low, so a record that is not skipped is eligible    *)
(* for remediation if and only if its findings list is not empty.          *)
(***************************************************************************)
\* the accumulator after each of the four checks, for the answers `resp`
Running(resp) ==
    LET a1 == CheckPab(EmptyAcc, resp.get_public_access_block)
        a2 == CheckAcl(a1, resp.get_bucket_acl)
        a3 == CheckPolicy(a2, resp.get_bucket_policy)
        a4 == CheckEncryption(a3, resp.get_bucket_encryption)
    IN <<EmptyAcc, a1, a2, a3, a4>>

FaultSets == {F \in SUBSET ScanOps : Cardinality(F) <= MaxFaults}

NeverDecreases(run) ==
    /\ \A k \in 1..Len(run) : run[k].severity \in {"none", "medium", "high"}
    /\ \A k \in 1..(Len(run) - 1) :
          LevelRank[run[k].severity] <= LevelRank[run[k + 1].severity]

C26_SeverityOnlyRises ==
    /\ pc = "scan"
         => \A F \in FaultSets : NeverDecreases(Running(ScanResponses(s3[bucket_list[i]], F)))
    /\ \A k \in 1..Len(risks) :
          /\ risks[k].severity \in {"none", "medium", "high"}
          /\ ~risks[k].skipped
                => (risks[k].severity \in {"high", "medium"} <=> risks[k].risks # <<>>)
    /\ pc = "remediate"
         => \A k \in 1..Len(risks) :
               ~risks[k].skipped
               => (risks[k].risks # <<>> <=> \E e \in 1..Len(eligible) : eligible[e] = risks[k])

\* a bucket whose one finding is of severity medium is handed to remediation
C26_MediumEligibleWitness ==
    /\ pc = "remediate"
    /\ \E e \in 1..Len(eligible) :
          eligible[e].severity = "medium" /\ Len(eligible[e].risks) = 1

(***************************************************************************)
(* C27. In the PublicACL safety check an object whose ACL cannot be read   *)
(* counts as not public: when no object that was read shows a grant to     *)
(* AllUsers, put_bucket_acl(private) is issued and the outcome is success, *)
(* also when every read failed.  The outcome is failed only when the       *)
(* object listing or put_bucket_acl itself fails.                          *)
(***************************************************************************)
FailedOn(name, op) == \E k \in CallsOn(name, op) : calls[k].code # "ok"

SeenPublic(name) ==
    \E k \in Sampled(name) : ReadOk(name, k) /\ HasAllUsers(s3[name].objects[k])

C27_UnreadObjectIsNotPublic ==
    \A b \in BucketNames : \A p \in FixesOf(b, "removed_public_acl") :
        /\ fixes[p].status = "failed"
              <=> (FailedOn(b, "list_objects_v2") \/ FailedOn(b, "put_bucket_acl"))
        /\ (~FailedOn(b, "list_objects_v2") /\ ~SeenPublic(b))
              => /\ CallsOn(b, "put_bucket_acl") # {}
                 /\ ~FailedOn(b, "put_bucket_acl")
                       => fixes[p].status = "success" /\ s3[b].acl = PrivateAcl
        /\ fixes[p].status = "skipped" <=> (~FailedOn(b, "list_objects_v2") /\ SeenPublic(b))

\* the ACL of a public object could not be read, no other read showed a
\* public grant, and the bucket ACL was set private with outcome success
C27_UnreadPublicWitness ==
    \E b \in BucketNames : \E p \in FixesOf(b, "removed_public_acl") :
        /\ fixes[p].status = "success"
        /\ s3[b].acl = PrivateAcl
        /\ \E k \in Sampled(b) : HasAllUsers(s3[b].objects[k]) /\ ~ReadOk(b, k)
        /\ FailedOn(b, "get_object_acl")

(***************************************************************************)
(* Properties of the remediation Lambda.                                   *)
(***************************************************************************)
\* the positions in the call log of this invocation of the calls of `ops`
FixCallsOf(ops) == { k \in 1..Len(fcalls) : fcalls[k].op \in ops }

OkCallsOf(ops) == { k \in FixCallsOf(ops) : fcalls[k].code = "ok" }

Handled == fpc = "done" /\ finvocations > 0

\* C22: each invocation of a remediation function makes one assume-role call
\* for the event's account before any storage call; every storage call uses
\* the session of that call; no call uses the session of an earlier
\* invocation; after a failed assume-role call there is no storage call.
C22_SessionPerInvocation ==
    /\ Cardinality(FixCallsOf({"assume_role"})) <= 1
    /\ \A k \in FixCallsOf(StorageOps) :
          \E a \in OkCallsOf({"assume_role"}) :
              /\ a < k
              /\ fcalls[a].target = sns_message.ClientAccountId
              /\ fcalls[k].session = fcalls[a].session
              /\ fcalls[k].session # 0
    /\ \A k \in 1..Len(fcalls) : fcalls[k].session \notin spent
    /\ session \notin spent

\* a second invocation has made a storage call with its own session
C22_SecondSessionWitness ==
    /\ spent # {}
    /\ OkCallsOf(StorageOps) # {}

\* the storage operations of each module, and the one that ends it
ModuleOps(module) ==
    CASE module = "public_read" -> {"put_public_access_block"}
      [] module = "versioning" -> {"put_bucket_versioning"}
      [] module = "encryption_rest" -> {"put_bucket_encryption"}
      [] module = "encryption_transit" -> {"put_bucket_policy"}
      [] module = "logging" ->
            {"head_bucket", "create_bucket", "put_public_access_block", "put_bucket_logging"}

LastOp(module) ==
    CASE module = "public_read" -> "put_public_access_block"
      [] module = "versioning" -> "put_bucket_versioning"
      [] module = "encryption_rest" -> "put_bucket_encryption"
      [] module = "encryption_transit" -> "put_bucket_policy"
      [] module = "logging" -> "put_bucket_logging"

\* C23: a handled event with one of the five rule names has run the mapped
\* module's remediate once, on the event's resource and account (and no
\* other module); an event with another rule name is answered with 400,
\* without assume-role call, storage call or log write.
C23_RoutesByRuleName ==
    (Handled /\ HasKeys(sns_message))
    => IF sns_message.ConfigRuleName \in RuleNames
       THEN LET module == REMEDIATION_MAP[sns_message.ConfigRuleName] IN
            /\ statusCode # 400
            /\ Cardinality(FixCallsOf({"assume_role"})) = 1
            /\ \A a \in FixCallsOf({"assume_role"}) :
                  fcalls[a].target = sns_message.ClientAccountId
            /\ \A k \in FixCallsOf(StorageOps) :
                  /\ fcalls[k].op \in ModuleOps(module)
                  /\ fcalls[k].target \in
                        {sns_message.ResourceId, LogBucket(sns_message.ResourceId)}
            /\ Cardinality(FixCallsOf({LastOp(module)}) \cap
                  { k \in 1..Len(fcalls) : fcalls[k].target = sns_message.ResourceId }) <= 1
            /\ statusCode = 200
                  => \E k \in OkCallsOf({LastOp(module)}) :
                        fcalls[k].target = sns_message.ResourceId
       ELSE /\ statusCode = 400
            /\ fcalls = <<>>

\* the logging rule was routed to the logging module and answered with 200
C23_LoggingRoutedWitness ==
    /\ Handled
    /\ sns_message.ConfigRuleName = "s3-bucket-logging-enabled"
    /\ statusCode = 200
    /\ OkCallsOf({"put_bucket_logging"}) # {}

\* a call of the remediation function or of log_remediation raised
Raising(k) ==
    /\ fcalls[k].code # "ok"
    /\ fcalls[k].op # "head_bucket"

\* C28: the handler always answers; 200 exactly when the rule is mapped, the
\* remediation function returned and both log writes completed; 500 after a
\* malformed event or a raising call; log writes come only after the
\* remediation function returned, and a failed log write gives 500 with the
\* bucket change in place.
C28_HandlerAnswers ==
    /\ fpc \in {"idle", "done", "assume", "log"} \cup {REMEDIATION_MAP[r] : r \in RuleNames}
               \cup {"logging_create", "logging_block", "logging_put"}
    /\ FixCallsOf(LogOps) # {}
          => /\ aux.clients
             /\ fix_result = "success"
             /\ \A k \in FixCallsOf(StorageOps) : \A l \in FixCallsOf(LogOps) : k < l
             /\ \E k \in OkCallsOf({LastOp(REMEDIATION_MAP[sns_message.ConfigRuleName])}) :
                    fcalls[k].target = sns_message.ResourceId
    /\ Handled
          => /\ statusCode \in {200, 400, 500}
             /\ statusCode = 200
                  <=> /\ HasKeys(sns_message)
                      /\ sns_message.ConfigRuleName \in RuleNames
                      /\ fix_result = "success"
                      /\ aux.clients
                           => OkCallsOf({"put_item"}) # {} /\ OkCallsOf({"put_object"}) # {}
             /\ (~HasKeys(sns_message) \/ \E k \in 1..Len(fcalls) : Raising(k))
                  => statusCode = 500
             /\ fix_result # "success" => FixCallsOf(LogOps) = {}

\* the bucket was changed, the second log write failed, the answer is 500
C28_LogFailureWitness ==
    /\ Handled
    /\ statusCode = 500
    /\ fix_result = "success"
    /\ \E k \in FixCallsOf({"put_object"}) : fcalls[k].code # "ok"
    /\ sns_message.ConfigRuleName = "s3-bucket-server-side-encryption-enabled"
    /\ s3[sns_message.ResourceId].enc = "AES256"

\* the calls of this invocation on the log bucket of the event's bucket
OnLogBucket(ops) ==
    { k \in FixCallsOf(ops) : fcalls[k].target = LogBucket(sns_message.ResourceId) }

SslScanned(name) == pc # "idle" /\ before[name].policy = SslPolicy

\* encryption_transit.remediate has written its policy and the scan Lambda
\* has not run since
SslJustWritten(name) ==
    /\ pc = "idle"
    /\ fpc \in {"log", "done"}
    /\ sns_message.ConfigRuleName = "s3-bucket-ssl-requests-only"
    /\ sns_message.ResourceId = name
    /\ OkCallsOf({"put_bucket_policy"}) # {}

\* C29: a bucket with the policy of the ssl remediation gets a
\* WildcardPolicy finding from scan_buckets; remediate_risks on it removes the
\* DenyInsecureTransport statement and writes a policy with an empty
\* statement list; the ssl remediation leaves its one statement as the whole
\* policy, whatever the policy was.
C29_RemediatorsUndoEachOther ==
    \A b \in BucketNames :
        /\ (SslScanned(b) /\ HasRecord(b) /\ ~risks[RecordIndex(b)].skipped
               /\ ~FailedOn(b, "get_bucket_policy"))
              => HasType(risks[RecordIndex(b)].risks, "WildcardPolicy")
        /\ (SslScanned(b) /\ Refetched(b) /\ NoCallFailed)
              => /\ s3[b].policy = PolicyDoc("2012-10-17", <<>>)
                 /\ s3[b].policy.present
                 /\ CallsOn(b, "put_bucket_policy") # {}
                 /\ HasOutcome(b, "removed_wildcard_policy", "success", "")
        /\ SslJustWritten(b)
              => /\ s3[b].policy = SslPolicy
                 /\ Len(s3[b].policy.Statement) = 1

\* the ssl remediation wrote its policy, the scan found it and the scan's
\* remediation left an empty statement list
C29_UndoneWitness ==
    /\ SslScanned("b1")
    /\ OkCallsOf({"put_bucket_policy"}) # {}
    /\ HasOutcome("b1", "removed_wildcard_policy", "success", "")
    /\ s3["b1"].policy.present
    /\ s3["b1"].policy.Statement = <<>>

====
